---- MODULE Spec2Model ----
(***************************************************************************)
(* Cart-to-order pipeline of the agrilink marketplace back end:            *)
(* the session cart (cart/cart.py, cart/views.py), order creation          *)
(* (orders/views.py, orders/serializers.py, orders/models.py), the payment *)
(* session and webhook handlers (payment/views.py) and the catalog rows    *)
(* they read (products/models.py).                                         *)
(*                                                                         *)
(* Money is counted in whole currency units; Decimal(str(d)) = d for the   *)
(* values the cart stores, so a stored price is the number itself.         *)
(* created_at / updated_at timestamps are not part of the state.           *)
(* The database runs in Django's default autocommit mode: every ORM call   *)
(* is its own transaction, so a handler that makes several ORM calls is    *)
(* several steps, and other requests may run between them.  One request    *)
(* per buyer session is in flight at a time.                               *)
(***************************************************************************)
EXTENDS Integers, Sequences, FiniteSets, TLC

\* ------------------------------------------------------------------ bounds
MaxStock == 2
MaxOrders == 2
MaxLineOrders == 1
MaxPrice == 2

Users == {"u1", "u2"}
Products == {1, 2}
Sessions == {"cs_1", "cs_2"}

VARIABLES
    products,      \* Product rows: id -> [exists, price, stock_quantity, is_available]
    session,       \* request.session[CART_SESSION_ID] of each buyer
    pc,            \* position of the buyer's in-flight OrderCreateAPIView.post
    req,           \* locals of that request: the Cart instance's dict and the order
    orders,        \* Order rows, in creation order; the index stands for the UUID
    orderItems,    \* OrderItem rows
    payments,      \* Payment rows
    dispatchLog,   \* calls of send_order_confirmation_email.delay
    webhookLog,    \* session ids of the verified checkout.session.completed events handled
    response       \* the last HTTP response sent

vars == <<products, session, pc, req, orders, orderItems, payments,
          dispatchLog, webhookLog, response>>

\* ------------------------------------------------------- orders/models.py
\* The concrete fields of the Order model.
OrderFields == {"id", "user", "created_at", "updated_at", "is_paid", "total_price", "status"}

OrderStatusChoices == {"pending", "processing", "completed", "cancelled"}

\* Model defaults of a new Order row.
OrderDefaults == [is_paid |-> FALSE, total_price |-> 0, status |-> "pending"]

OrderIds == 1..Len(orders)

\* ------------------------------------------------------------ cart/cart.py
EmptyCart == [p \in {} |-> [quantity |-> 0, price |-> 0]]

\* A stored value that int() or Decimal() cannot convert ("abc", None): the
\* conversion raises ValueError, InvalidOperation or TypeError.
NonNumeric == 999

\* The stored price "Infinity": Decimal("Infinity") converts, is not negative
\* and is written back by str() unchanged.
Infinity == 1000

\* Cart._validate_cart that also rejects a quantity or price of 0.
validate_cart_rejects_zero(cart) ==
    LET good == {p \in DOMAIN cart :
                   /\ cart[p].quantity # NonNumeric
                   /\ cart[p].price # NonNumeric
                   /\ ~(cart[p].quantity <= 0 \/ cart[p].price <= 0)}
    IN  [p \in good |-> [quantity |-> cart[p].quantity, price |-> cart[p].price]]

\* Cart._validate_cart: keep the entries whose quantity and price convert and
\* are not negative.
validate_cart(cart) ==
    LET good == {p \in DOMAIN cart :
                   /\ cart[p].quantity # NonNumeric
                   /\ cart[p].price # NonNumeric
                   /\ ~(cart[p].quantity < 0 \/ cart[p].price < 0)}
    IN  [p \in good |-> [quantity |-> cart[p].quantity, price |-> cart[p].price]]

\* Cart.__init__: the Cart instance's dict, loaded from the session.
Cart(sess) == validate_cart(sess)

Max0(n) == IF n > 0 THEN n ELSE 0

\* Cart.add that sets the quantity whatever update_quantity says.
add_always_sets(cart, product_id, price, quantity, update_quantity) ==
    LET line == IF product_id \in DOMAIN cart
                THEN cart[product_id]
                ELSE [quantity |-> 0, price |-> price]
    IN  [p \in DOMAIN cart \cup {product_id} |->
            IF p = product_id THEN [quantity |-> Max0(quantity), price |-> line.price]
            ELSE cart[p]]

\* Cart.add that stores the product's current price on every call.
add_refreshes_price(cart, product_id, price, quantity, update_quantity) ==
    LET line == IF product_id \in DOMAIN cart
                THEN cart[product_id]
                ELSE [quantity |-> 0, price |-> price]
        newq == IF update_quantity THEN Max0(quantity)
                ELSE Max0(line.quantity + quantity)
    IN  [p \in DOMAIN cart \cup {product_id} |->
            IF p = product_id THEN [quantity |-> newq, price |-> price]
            ELSE cart[p]]

\* Cart.add followed by Cart.save: the dict written back to the session.
\* (The caller checks price > 0 first: add raises otherwise.)
add(cart, product_id, price, quantity, update_quantity) ==
    LET line == IF product_id \in DOMAIN cart
                THEN cart[product_id]
                ELSE [quantity |-> 0, price |-> price]
        newq == IF update_quantity THEN Max0(quantity)
                ELSE Max0(line.quantity + quantity)
    IN  [p \in DOMAIN cart \cup {product_id} |->
            IF p = product_id THEN [quantity |-> newq, price |-> line.price]
            ELSE cart[p]]

\* Cart.remove followed by Cart.save.
remove(cart, product_id) == [p \in DOMAIN cart \ {product_id} |-> cart[p]]

\* A length that is never zero: the emptiness test of the caller never fires.
len_never_empty(cart) == 1 + Cardinality(DOMAIN cart)

\* Cart.__len__: the sum of the quantities.
RECURSIVE len(_)
len(cart) ==
    IF DOMAIN cart = {} THEN 0
    ELSE LET p == CHOOSE x \in DOMAIN cart : TRUE
         IN  cart[p].quantity + len(remove(cart, p))

\* Cart.get_total_price: the sum of price * quantity over the stored lines.
RECURSIVE get_total_price(_)
get_total_price(cart) ==
    IF DOMAIN cart = {} THEN 0
    ELSE LET p == CHOOSE x \in DOMAIN cart : TRUE
         IN  cart[p].price * cart[p].quantity + get_total_price(remove(cart, p))

\* Cart.get_total_price raises decimal.InvalidOperation: Decimal("Infinity") * 0
\* is an invalid operation and the default context traps it.  (Infinity times
\* a positive quantity is Infinity, here a number larger than any other total.)
get_total_price_raises(cart) ==
    \E p \in DOMAIN cart : cart[p].price = Infinity /\ cart[p].quantity = 0

\* Cart.__iter__ that takes the price of a line from the catalog row.
iter_catalog_price(cart, prods) ==
    { [product_id |-> p,
       product |-> IF prods[p].exists THEN "row" ELSE "None",
       price |-> IF prods[p].exists THEN prods[p].price ELSE cart[p].price,
       quantity |-> cart[p].quantity,
       total_price |-> IF cart[p].price <= 0 \/ cart[p].quantity <= 0
                       THEN 0 ELSE cart[p].price * cart[p].quantity]
      : p \in DOMAIN cart }

\* Cart.__iter__: one item per line; product is "None" when the row is gone,
\* total_price is 0 when the price or the quantity is not positive.
iter(cart, prods) ==
    { [product_id |-> p,
       product |-> IF prods[p].exists THEN "row" ELSE "None",
       price |-> cart[p].price,
       quantity |-> cart[p].quantity,
       total_price |-> IF cart[p].price <= 0 \/ cart[p].quantity <= 0
                       THEN 0 ELSE cart[p].price * cart[p].quantity]
      : p \in DOMAIN cart }

\* Cart.clear that leaves the stored lines in place.
clear_keeps_lines(sess) == sess

\* Cart.clear: the session's cart is reset to {}.
clear(sess) == EmptyCart

\* --------------------------------------------------------------------------
\* What is left of a deleted Product row.
NoProduct == [exists |-> FALSE, price |-> 0, stock_quantity |-> 0, is_available |-> FALSE]

NoReq == [cart |-> EmptyCart, order |-> 0, user_email |-> "none"]
NoResponse == [user |-> "none", op |-> "none", status |-> 0, order |-> 0, detail |-> "none"]
Resp(u, op, st, o, d) == [user |-> u, op |-> op, status |-> st, order |-> o, detail |-> d]

Init ==
    /\ products = [p \in Products |->
                     [exists |-> TRUE, price |-> p, stock_quantity |-> MaxStock,
                      is_available |-> TRUE]]
    /\ session = [u \in Users |-> EmptyCart]
    /\ pc = [u \in Users |-> "idle"]
    /\ req = [u \in Users |-> NoReq]
    /\ orders = <<>>
    /\ orderItems = {}
    /\ payments = {}
    /\ dispatchLog = <<>>
    /\ webhookLog = {}
    /\ response = NoResponse

\* ----------------------------------------------------- cart/serializers.py
\* The serializer with min_value=0.
CartAddProductSerializer_errors_min_zero(product, quantity) ==
    IF quantity < 0 THEN "quantity: min_value"
    ELSE IF ~product.is_available THEN "quantity: not available"
    ELSE IF quantity > product.stock_quantity THEN "quantity: only stock_quantity in stock"
    ELSE "ok"

\* The serializer without the availability test of validate_quantity.
CartAddProductSerializer_errors_ignores_availability(product, quantity) ==
    IF quantity < 1 THEN "quantity: min_value"
    ELSE IF quantity > product.stock_quantity THEN "quantity: only stock_quantity in stock"
    ELSE "ok"

\* CartAddProductSerializer.is_valid: the errors of IntegerField(min_value=1)
\* and of validate_quantity (availability, then stock); "ok" when valid.
CartAddProductSerializer_errors(product, quantity) ==
    IF quantity < 1 THEN "quantity: min_value"
    ELSE IF ~product.is_available THEN "quantity: not available"
    ELSE IF quantity > product.stock_quantity THEN "quantity: only stock_quantity in stock"
    ELSE "ok"

\* ------------------------------------------------------------ cart/views.py
\* The stock test, off by one.
new_quantity_exceeds_stock_by_two(new_quantity, product) ==
    new_quantity > product.stock_quantity + 1

\* The stock test of CartAddProductView.post on the resulting quantity.
new_quantity_exceeds_stock(new_quantity, product) == new_quantity > product.stock_quantity

\* CartAddProductView.post
CartAddProductView_post(u, product_id, quantity, override) ==
    /\ pc[u] = "idle"
    /\ LET cart == Cart(session[u])
           product == products[product_id]
           errors == CartAddProductSerializer_errors(product, quantity)
           current_quantity == IF product_id \in DOMAIN cart
                               THEN cart[product_id].quantity ELSE 0
           new_quantity == IF override THEN quantity ELSE current_quantity + quantity
       IN  IF ~product.exists
           THEN /\ response' = Resp(u, "add", 404, 0, "Not found.")
                /\ UNCHANGED session
           ELSE IF errors # "ok"
           THEN /\ response' = Resp(u, "add", 400, 0, errors)
                /\ UNCHANGED session
           ELSE IF new_quantity_exceeds_stock(new_quantity, product)
           THEN /\ response' = Resp(u, "add", 400, 0, "Cannot add more than available stock.")
                /\ UNCHANGED session
           ELSE IF product.price <= 0
           THEN \* Cart.add raises ValueError
                /\ response' = Resp(u, "add", 500, 0, "ValueError")
                /\ UNCHANGED session
           ELSE /\ session' = [session EXCEPT
                                 ![u] = add(cart, product_id, product.price, quantity, override)]
                /\ response' = Resp(u, "add", 200, 0, "Product added to cart successfully.")
    /\ UNCHANGED <<products, pc, req, orders, orderItems, payments, dispatchLog, webhookLog>>

\* CartRemoveProductView.post
CartRemoveProductView_post(u, product_id) ==
    /\ pc[u] = "idle"
    /\ LET cart == Cart(session[u])
           after == remove(cart, product_id)
       IN  IF ~products[product_id].exists \/ product_id \notin DOMAIN cart
           THEN /\ response' = Resp(u, "remove", 404, 0, "Not found.")
                /\ UNCHANGED session
           ELSE /\ session' = [session EXCEPT ![u] = after]
                \* the response reads item['product'].id of every remaining line
                /\ response' = Resp(u, "remove",
                                    IF \E it \in iter(after, products) : it.product = "None"
                                    THEN 500 ELSE 200, 0, "none")
    /\ UNCHANGED <<products, pc, req, orders, orderItems, payments, dispatchLog, webhookLog>>

\* CartDetailView.get: one entry per yielded item, reading item['product'].id,
\* then the cart's total price.
CartDetailView_get(u) ==
    /\ pc[u] = "idle"
    /\ LET cart == Cart(session[u])
       IN  response' =
             IF \E it \in iter(cart, products) : it.product = "None"
             THEN Resp(u, "detail", 500, 0, "AttributeError")
             ELSE IF get_total_price_raises(cart)
             THEN Resp(u, "detail", 500, 0, "InvalidOperation")
             ELSE Resp(u, "detail", 200, 0, "none")
    /\ UNCHANGED <<products, session, pc, req, orders, orderItems, payments,
                   dispatchLog, webhookLog>>

\* ------------------------------------------ cart/cart.py, one Cart instance
\* The Cart object of a request: pc[u] = "cart" while the object is alive and
\* req[u].cart is its self.cart.
\* Cart.__init__: self.cart is the validated copy of the session's dict; the
\* session keeps what it held.
Cart_init(u) ==
    /\ pc[u] = "idle"
    /\ pc' = [pc EXCEPT ![u] = "cart"]
    /\ req' = [req EXCEPT ![u].cart = Cart(session[u])]
    /\ UNCHANGED <<products, session, orders, orderItems, payments, dispatchLog,
                   webhookLog, response>>

\* Cart.add on the object: self.cart is updated and save() stores it in the session.
Cart_add(u, product_id, quantity, update_quantity) ==
    /\ pc[u] = "cart"
    /\ products[product_id].exists
    /\ products[product_id].price > 0
    /\ LET after == add(req[u].cart, product_id, products[product_id].price,
                        quantity, update_quantity)
       IN  /\ after[product_id].quantity <= MaxStock
           /\ req' = [req EXCEPT ![u].cart = after]
           /\ session' = [session EXCEPT ![u] = after]
    /\ UNCHANGED <<products, pc, orders, orderItems, payments, dispatchLog,
                   webhookLog, response>>

\* Cart.remove on the object: a stored line is deleted and save() is called.
Cart_remove(u, product_id) ==
    /\ pc[u] = "cart"
    /\ product_id \in DOMAIN req[u].cart
    /\ req' = [req EXCEPT ![u].cart = remove(req[u].cart, product_id)]
    /\ session' = [session EXCEPT ![u] = remove(req[u].cart, product_id)]
    /\ UNCHANGED <<products, pc, orders, orderItems, payments, dispatchLog,
                   webhookLog, response>>

\* Cart.clear on the object: the session's dict is replaced by {}; self.cart
\* is not touched.
Cart_clear(u) ==
    /\ pc[u] = "cart"
    /\ session' = [session EXCEPT ![u] = clear(session[u])]
    /\ UNCHANGED <<products, pc, req, orders, orderItems, payments, dispatchLog,
                   webhookLog, response>>

\* The request ends and the Cart object with it.
Cart_del(u) ==
    /\ pc[u] = "cart"
    /\ pc' = [pc EXCEPT ![u] = "idle"]
    /\ req' = [req EXCEPT ![u] = NoReq]
    /\ UNCHANGED <<products, session, orders, orderItems, payments, dispatchLog,
                   webhookLog, response>>

\* ------------------------------------------------------- products/views.py
\* ProductViewSet.partial_update of stock_quantity by the seller.
ProductViewSet_partial_update(product_id, stock) ==
    /\ products[product_id].exists
    /\ products[product_id].stock_quantity # stock
    /\ products' = [products EXCEPT ![product_id].stock_quantity = stock]
    /\ UNCHANGED <<session, pc, req, orders, orderItems, payments, dispatchLog,
                   webhookLog, response>>

\* ProductViewSet.partial_update of price by the seller.
ProductViewSet_partial_update_price(product_id, price) ==
    /\ products[product_id].exists
    /\ products[product_id].price # price
    /\ products' = [products EXCEPT ![product_id].price = price]
    /\ UNCHANGED <<session, pc, req, orders, orderItems, payments, dispatchLog,
                   webhookLog, response>>

\* ProductViewSet.partial_update of is_available by the seller.
ProductViewSet_partial_update_is_available(product_id, is_available) ==
    /\ products[product_id].exists
    /\ products[product_id].is_available # is_available
    /\ products' = [products EXCEPT ![product_id].is_available = is_available]
    /\ UNCHANGED <<session, pc, req, orders, orderItems, payments, dispatchLog,
                   webhookLog, response>>

\* ProductViewSet.destroy: the row is deleted and, by on_delete=CASCADE, so
\* are the OrderItem rows of that product.
ProductViewSet_destroy(product_id) ==
    /\ products[product_id].exists
    /\ products' = [products EXCEPT ![product_id] = NoProduct]
    /\ orderItems' = {it \in orderItems : it.product # product_id}
    /\ UNCHANGED <<session, pc, req, orders, payments, dispatchLog, webhookLog, response>>

\* --------------------------------------------------- orders/serializers.py
\* The request bodies sent to POST /orders/create: a field is "absent" or a value.
DefaultBody == [is_paid |-> "absent", status |-> "absent"]

Bodies == { DefaultBody,
            [is_paid |-> "true", status |-> "completed"],
            [is_paid |-> "absent", status |-> "bogus"] }

\* OrderSerializer.is_valid: 'status' is a writable ChoiceField, 'is_paid' a
\* writable BooleanField; every other field is read-only.
OrderSerializer_is_valid(body) ==
    /\ body.status \in OrderStatusChoices \cup {"absent"}
    /\ body.is_paid \in {"absent", "true", "false"}

\* OrderSerializer.create: the row that is inserted; total_price is read-only
\* and keeps the model default.
OrderSerializer_create(body, u) ==
    [user |-> u,
     is_paid |-> IF body.is_paid = "absent" THEN OrderDefaults.is_paid
                 ELSE body.is_paid = "true",
     status |-> IF body.status = "absent" THEN OrderDefaults.status ELSE body.status,
     total_price |-> OrderDefaults.total_price]

\* ---------------------------------------------------------- orders/views.py
\* OrderCreateAPIView.post, lines 61-69: load the cart, refuse an empty one,
\* validate the body and insert the Order row.
OrderCreate_order(u, body) ==
    /\ pc[u] = "idle"
    /\ LET cart == Cart(session[u])
       IN  IF len(cart) = 0
           THEN /\ response' = Resp(u, "order", 400, 0, "Cart is empty. Cannot place an order.")
                /\ UNCHANGED <<pc, req, orders>>
           ELSE IF ~OrderSerializer_is_valid(body)
           THEN /\ response' = Resp(u, "order", 400, 0, "serializer.errors")
                /\ UNCHANGED <<pc, req, orders>>
           ELSE /\ Len(orders) < MaxOrders
                /\ orders' = Append(orders, OrderSerializer_create(body, u))
                /\ req' = [req EXCEPT ![u] = [cart |-> cart, order |-> Len(orders) + 1,
                                              user_email |-> u]]
                /\ pc' = [pc EXCEPT ![u] = "items"]
                /\ UNCHANGED response
    /\ UNCHANGED <<products, session, orderItems, payments, dispatchLog, webhookLog>>

\* The OrderItem rows built from the cart, lines 71-75.
order_items(order, cart, prods) ==
    { [order |-> order, product |-> it.product_id, price |-> it.price,
       quantity |-> it.quantity] : it \in iter(cart, prods) }

\* OrderCreateAPIView.post that takes the ordered quantities off the stock
\* when it stores the OrderItems.
OrderCreate_items_decrements_stock(u) ==
    /\ pc[u] = "items"
    /\ IF \E it \in iter(req[u].cart, products) : it.product = "None"
       THEN /\ response' = Resp(u, "order", 500, req[u].order, "IntegrityError")
            /\ pc' = [pc EXCEPT ![u] = "idle"]
            /\ req' = [req EXCEPT ![u] = NoReq]
            /\ UNCHANGED <<orderItems, products>>
       ELSE /\ orderItems' = orderItems \cup order_items(req[u].order, req[u].cart, products)
            /\ products' = [p \in Products |->
                              IF p \in DOMAIN req[u].cart
                              THEN [products[p] EXCEPT !.stock_quantity =
                                       Max0(@ - req[u].cart[p].quantity)]
                              ELSE products[p]]
            /\ pc' = [pc EXCEPT ![u] = "clear"]
            /\ UNCHANGED <<req, response>>
    /\ UNCHANGED <<session, orders, payments, dispatchLog, webhookLog>>

\* OrderCreateAPIView.post that enqueues the confirmation e-mail as soon as the
\* Order row exists, before the OrderItems are stored.
OrderCreate_items_enqueues(u) ==
    /\ pc[u] = "items"
    /\ dispatchLog' = Append(dispatchLog,
                             [order |-> req[u].order, email |-> req[u].user_email,
                              queued |-> TRUE])
    /\ IF \E it \in iter(req[u].cart, products) : it.product = "None"
       THEN /\ response' = Resp(u, "order", 500, req[u].order, "IntegrityError")
            /\ pc' = [pc EXCEPT ![u] = "idle"]
            /\ req' = [req EXCEPT ![u] = NoReq]
            /\ UNCHANGED orderItems
       ELSE /\ orderItems' = orderItems \cup order_items(req[u].order, req[u].cart, products)
            /\ pc' = [pc EXCEPT ![u] = "clear"]
            /\ UNCHANGED <<req, response>>
    /\ UNCHANGED <<products, session, orders, payments, webhookLog>>

\* OrderCreateAPIView.post, lines 71-77: build the OrderItems and bulk_create
\* them.  A line whose product row is gone gives product=None, which the
\* NOT NULL foreign key refuses: the exception ends the request (500).
OrderCreate_items(u) ==
    /\ pc[u] = "items"
    /\ IF \E it \in iter(req[u].cart, products) : it.product = "None"
       THEN /\ response' = Resp(u, "order", 500, req[u].order, "IntegrityError")
            /\ pc' = [pc EXCEPT ![u] = "idle"]
            /\ req' = [req EXCEPT ![u] = NoReq]
            /\ UNCHANGED orderItems
       ELSE /\ orderItems' = orderItems \cup order_items(req[u].order, req[u].cart, products)
            /\ pc' = [pc EXCEPT ![u] = "clear"]
            /\ UNCHANGED <<req, response>>
    /\ UNCHANGED <<products, session, orders, payments, dispatchLog, webhookLog>>

\* OrderCreateAPIView.post in which the exception of the dispatch call is not
\* caught: the request ends with 500 after the cart was cleared.
OrderCreate_clear_uncaught(u, delay_ok) ==
    /\ pc[u] = "clear"
    /\ session' = [session EXCEPT ![u] = clear(session[u])]
    /\ dispatchLog' = Append(dispatchLog,
                             [order |-> req[u].order, email |-> req[u].user_email,
                              queued |-> delay_ok])
    /\ response' = IF delay_ok
                   THEN Resp(u, "order", 201, req[u].order, "Order created successfully")
                   ELSE Resp(u, "order", 500, req[u].order, "OperationalError")
    /\ pc' = [pc EXCEPT ![u] = "idle"]
    /\ req' = [req EXCEPT ![u] = NoReq]
    /\ UNCHANGED <<products, orders, orderItems, payments, webhookLog>>

\* OrderCreateAPIView.post, lines 79-92: clear the cart, enqueue the
\* confirmation e-mail (the call may raise: it is caught) and answer 201.
OrderCreate_clear(u, delay_ok) ==
    /\ pc[u] = "clear"
    /\ session' = [session EXCEPT ![u] = clear(session[u])]
    /\ dispatchLog' = Append(dispatchLog,
                             [order |-> req[u].order, email |-> req[u].user_email,
                              queued |-> delay_ok])
    /\ response' = Resp(u, "order", 201, req[u].order, "Order created successfully")
    /\ pc' = [pc EXCEPT ![u] = "idle"]
    /\ req' = [req EXCEPT ![u] = NoReq]
    /\ UNCHANGED <<products, orders, orderItems, payments, webhookLog>>

\* --------------------------------------------------------- payment/views.py
\* The Payment model lives in payment/models.py; its rows carry what the
\* views pass to Payment.objects.create and the status the webhook writes.
PaymentRow(u, order_id, sid, amount) ==
    [user |-> u, order |-> order_id, stripe_checkout_id |-> sid, amount |-> amount,
     status |-> "pending"]

\* Reading an attribute of a model instance: defined only for its fields.
hasattr(fields, name) == name \in fields

\* Assigning an attribute of a model instance and calling save(): only the
\* model's fields reach the row.
setattr_save(row, fields, name, value) ==
    IF name \in fields THEN [row EXCEPT ![name] = value] ELSE row

\* create_checkout_session that looks the order up by its id alone.
create_checkout_session_any_owner(u, order_id, sid, stripe_ok) ==
    /\ pc[u] = "idle"
    /\ IF ~(order_id \in OrderIds)
       THEN /\ response' = Resp(u, "checkout", 404, order_id, "Not found.")
            /\ UNCHANGED payments
       ELSE IF ~hasattr(OrderFields, "paid")
       THEN /\ response' = Resp(u, "checkout", 500, order_id, "AttributeError")
            /\ UNCHANGED payments
       ELSE IF orders[order_id].paid
       THEN /\ response' = Resp(u, "checkout", 400, order_id, "This order has already been paid.")
            /\ UNCHANGED payments
       ELSE IF ~stripe_ok \/ (\E pay \in payments : pay.order = order_id)
       THEN /\ response' = Resp(u, "checkout", 500, order_id, "str(e)")
            /\ UNCHANGED payments
       ELSE /\ payments' = payments \cup
                  {PaymentRow(u, order_id, sid, orders[order_id].total_price)}
            /\ response' = Resp(u, "checkout", 201, order_id, sid)
    /\ UNCHANGED <<products, session, pc, req, orders, orderItems, dispatchLog, webhookLog>>

\* create_checkout_session
create_checkout_session(u, order_id, sid, stripe_ok) ==
    /\ pc[u] = "idle"
    /\ IF ~(order_id \in OrderIds /\ orders[order_id].user = u)
       THEN /\ response' = Resp(u, "checkout", 404, order_id, "Not found.")
            /\ UNCHANGED payments
       ELSE IF ~hasattr(OrderFields, "paid")
       THEN \* order.paid raises AttributeError outside the try block
            /\ response' = Resp(u, "checkout", 500, order_id, "AttributeError")
            /\ UNCHANGED payments
       ELSE IF orders[order_id].paid
       THEN /\ response' = Resp(u, "checkout", 400, order_id, "This order has already been paid.")
            /\ UNCHANGED payments
       ELSE IF ~stripe_ok \/ (\E pay \in payments : pay.order = order_id)
       THEN \* stripe.checkout.Session.create or Payment.objects.create raised
            /\ response' = Resp(u, "checkout", 500, order_id, "str(e)")
            /\ UNCHANGED payments
       ELSE /\ payments' = payments \cup
                  {PaymentRow(u, order_id, sid, orders[order_id].total_price)}
            /\ response' = Resp(u, "checkout", 201, order_id, sid)
    /\ UNCHANGED <<products, session, pc, req, orders, orderItems, dispatchLog, webhookLog>>

\* A pending Payment row for an order and a checkout session of the provider,
\* stored by other means than the view above (the row the webhook looks up).
PaymentSessionOpened(order_id, sid) ==
    /\ order_id \in OrderIds
    /\ \A pay \in payments : pay.order # order_id /\ pay.stripe_checkout_id # sid
    /\ sid \notin webhookLog
    /\ payments' = payments \cup
          {PaymentRow(orders[order_id].user, order_id, sid, orders[order_id].total_price)}
    /\ UNCHANGED <<products, session, pc, req, orders, orderItems, dispatchLog,
                   webhookLog, response>>

\* handle_successful_payment: the Order rows and Payment rows afterwards.
handle_successful_payment_orders(sid) ==
    IF \E pay \in payments : pay.stripe_checkout_id = sid
    THEN LET payment == CHOOSE pay \in payments : pay.stripe_checkout_id = sid
         IN  [orders EXCEPT ![payment.order] =
                 setattr_save(orders[payment.order], OrderFields, "paid", TRUE)]
    ELSE orders

\* handle_successful_payment that completes every Payment row, not only the
\* one of the event's session.
handle_successful_payment_payments_all(sid) ==
    { [pay EXCEPT !.status = "completed"] : pay \in payments }

handle_successful_payment_payments(sid) ==
    { IF pay.stripe_checkout_id = sid THEN [pay EXCEPT !.status = "completed"] ELSE pay
      : pay \in payments }

\* stripe_webhook that handles the event before looking at the outcome of the
\* signature check.
stripe_webhook_handles_unverified(verified, type, sid) ==
    /\ IF type = "checkout.session.completed"
       THEN /\ orders' = handle_successful_payment_orders(sid)
            /\ payments' = handle_successful_payment_payments(sid)
            /\ webhookLog' = webhookLog \cup {sid}
       ELSE UNCHANGED <<orders, payments, webhookLog>>
    /\ response' = IF verified THEN Resp("stripe", "webhook", 200, 0, "none")
                   ELSE Resp("stripe", "webhook", 400, 0, "Invalid payload or signature.")
    /\ UNCHANGED <<products, session, pc, req, orderItems, dispatchLog>>

\* stripe_webhook: verified says whether stripe.Webhook.construct_event
\* returned the event (it raises ValueError or SignatureVerificationError
\* otherwise).  order.save() and payment.save() are two statements of
\* handle_successful_payment; the first one stores no change (see
\* setattr_save), so the state between them is the state before.
stripe_webhook(verified, type, sid) ==
    /\ IF ~verified
       THEN /\ response' = Resp("stripe", "webhook", 400, 0, "Invalid payload or signature.")
            /\ UNCHANGED <<orders, payments, webhookLog>>
       ELSE /\ IF type = "checkout.session.completed"
               THEN /\ orders' = handle_successful_payment_orders(sid)
                    /\ payments' = handle_successful_payment_payments(sid)
                    /\ webhookLog' = webhookLog \cup {sid}
               ELSE UNCHANGED <<orders, payments, webhookLog>>
            /\ response' = Resp("stripe", "webhook", 200, 0, "none")
    /\ UNCHANGED <<products, session, pc, req, orderItems, dispatchLog>>

EventTypes == {"checkout.session.completed", "payment_intent.created"}

\* Two buyers, one product: the concurrent checkouts.
Next ==
    \/ \E u \in Users, q \in 0..(MaxStock + 1), ov \in BOOLEAN :
          CartAddProductView_post(u, 1, q, ov)
    \/ \E u \in Users : CartRemoveProductView_post(u, 1)
    \/ \E s \in 0..MaxStock : ProductViewSet_partial_update(1, s)
    \/ ProductViewSet_destroy(1)
    \/ \E u \in Users : OrderCreate_order(u, DefaultBody)
    \/ \E u \in Users : OrderCreate_items(u)
    \/ \E u \in Users, ok \in BOOLEAN : OrderCreate_clear(u, ok)

\* One buyer, two products, every request body: the lines of a cart and of an order.
NextLines ==
    \/ \E p \in Products, q \in 0..(MaxStock + 1), ov \in BOOLEAN :
          CartAddProductView_post("u1", p, q, ov)
    \/ \E p \in Products : CartRemoveProductView_post("u1", p)
    \/ \E p \in Products, s \in 0..MaxStock : ProductViewSet_partial_update(p, s)
    \/ \E p \in Products : ProductViewSet_destroy(p)
    \/ \E b \in Bodies : Len(orders) < MaxLineOrders /\ OrderCreate_order("u1", b)
    \/ OrderCreate_items("u1")
    \/ \E ok \in BOOLEAN : OrderCreate_clear("u1", ok)

\* One buyer, two products whose prices the seller changes: the price snapshot.
NextPrice ==
    \/ \E p \in Products, q \in 1..MaxStock, ov \in BOOLEAN :
          CartAddProductView_post("u1", p, q, ov)
    \/ \E p \in Products : CartRemoveProductView_post("u1", p)
    \/ \E p \in Products, c \in 1..MaxPrice : ProductViewSet_partial_update_price(p, c)
    \/ Len(orders) < MaxLineOrders /\ OrderCreate_order("u1", DefaultBody)
    \/ OrderCreate_items("u1")
    \/ \E ok \in BOOLEAN : OrderCreate_clear("u1", ok)

\* One buyer's add and remove requests while the seller changes stock and
\* availability and deletes products.
NextAdd ==
    \/ \E p \in Products, q \in -1..(MaxStock + 1), ov \in BOOLEAN :
          CartAddProductView_post("u1", p, q, ov)
    \/ \E p \in Products : CartRemoveProductView_post("u1", p)
    \/ \E p \in Products, s \in 0..MaxStock : ProductViewSet_partial_update(p, s)
    \/ \E p \in Products, a \in BOOLEAN : ProductViewSet_partial_update_is_available(p, a)
    \/ \E p \in Products : ProductViewSet_destroy(p)

SpecAdd == Init /\ [][NextAdd]_vars

\* One buyer and one product through cart, order, checkout session and
\* webhook, while the seller sets the stock.
NextStock ==
    \/ \E q \in 1..MaxStock, ov \in BOOLEAN : CartAddProductView_post("u1", 1, q, ov)
    \/ CartRemoveProductView_post("u1", 1)
    \/ \E s \in 0..MaxStock : ProductViewSet_partial_update(1, s)
    \/ Len(orders) < MaxLineOrders /\ OrderCreate_order("u1", DefaultBody)
    \/ OrderCreate_items("u1")
    \/ OrderCreate_clear("u1", TRUE)
    \/ \E o \in 1..MaxLineOrders, sid \in Sessions, ok \in BOOLEAN :
          create_checkout_session("u1", o, sid, ok)
    \/ \E o \in 1..MaxLineOrders, sid \in Sessions : PaymentSessionOpened(o, sid)
    \/ \E v \in BOOLEAN, t \in EventTypes, sid \in Sessions : stripe_webhook(v, t, sid)

SpecStock == Init /\ [][NextStock]_vars

SpecPrice == Init /\ [][NextPrice]_vars

\* The Cart class on its own: the session dict it loads is any dict of stored
\* entries, numeric or not.
RawQuantities == {NonNumeric, -1, 0, 1}
RawPrices == {NonNumeric, Infinity, -1, 0, 1}
RawCarts == UNION { [D -> [quantity : RawQuantities, price : RawPrices]] : D \in SUBSET Products }

InitCart ==
    /\ products = [p \in Products |->
                     [exists |-> TRUE, price |-> p, stock_quantity |-> MaxStock,
                      is_available |-> TRUE]]
    /\ session \in {[u \in Users |-> IF u = "u1" THEN c ELSE EmptyCart] : c \in RawCarts}
    /\ pc = [u \in Users |-> "idle"]
    /\ req = [u \in Users |-> NoReq]
    /\ orders = <<>>
    /\ orderItems = {}
    /\ payments = {}
    /\ dispatchLog = <<>>
    /\ webhookLog = {}
    /\ response = NoResponse

NextCart ==
    \/ Cart_init("u1")
    \/ \E p \in Products, q \in -1..MaxStock, upd \in BOOLEAN : Cart_add("u1", p, q, upd)
    \/ \E p \in Products : Cart_remove("u1", p)
    \/ Cart_clear("u1")
    \/ Cart_del("u1")
    \/ CartDetailView_get("u1")
    \/ \E p \in Products : ProductViewSet_destroy(p)

SpecCart == InitCart /\ [][NextCart]_vars

SpecLines == Init /\ [][NextLines]_vars

Spec == Init /\ [][Next]_vars

\* Two buyers ordering one unit of one product, the checkout session and the webhook.
NextPay ==
    \/ \E u \in Users : CartAddProductView_post(u, 1, 1, TRUE)
    \/ \E u \in Users, b \in Bodies : OrderCreate_order(u, b)
    \/ \E u \in Users : OrderCreate_items(u)
    \/ \E u \in Users : OrderCreate_clear(u, TRUE)
    \/ \E u \in Users, o \in 1..MaxOrders, sid \in Sessions, ok \in BOOLEAN :
          create_checkout_session(u, o, sid, ok)
    \/ \E o \in 1..MaxOrders, sid \in Sessions : PaymentSessionOpened(o, sid)
    \/ \E v \in BOOLEAN, t \in EventTypes, sid \in Sessions : stripe_webhook(v, t, sid)

SpecPay == Init /\ [][NextPay]_vars

\* ========================================================== properties
\* A step of OrderCreateAPIView.post made for buyer u.
OrderCreateStep(u) ==
    \/ \E b \in Bodies : OrderCreate_order(u, b)
    \/ OrderCreate_items(u)
    \/ \E ok \in BOOLEAN : OrderCreate_clear(u, ok)

\* Some line of the cart asks for more than the product's stock.
LineExceedsStock(cart) ==
    \E p \in DOMAIN cart : products[p].exists /\ cart[p].quantity > products[p].stock_quantity

\* The OrderItem rows of an order, and the sum of their line totals.
ItemsOf(o) == {it \in orderItems : it.order = o}

RECURSIVE ItemsTotal(_)
ItemsTotal(S) ==
    IF S = {} THEN 0
    ELSE LET it == CHOOSE x \in S : TRUE
         IN  it.quantity * it.price + ItemsTotal(S \ {it})

\* C1: two createOrder requests in flight at once, for carts whose quantities
\* of one product together exceed its stock, never both get as far as having
\* stored their Order and OrderItems (at most one succeeds), and no stock is
\* negative.
C1_ConcurrentCheckoutsOneSucceeds ==
    /\ \A p \in Products : products[p].stock_quantity >= 0
    /\ \A u, v \in Users :
          (/\ u # v
           /\ pc[u] = "clear" /\ pc[v] = "clear"
           /\ \E p \in DOMAIN req[u].cart \cap DOMAIN req[v].cart :
                 /\ products[p].exists
                 /\ req[u].cart[p].quantity + req[v].cart[p].quantity
                       > products[p].stock_quantity)
          => FALSE

\* C2: a createOrder called while some cart line exceeds its product's stock
\* answers an error and stores no Order and no OrderItem and leaves the cart.
C2_OrderRevalidatesStock ==
    [][\A u \in Users :
         (/\ pc[u] = "idle"
          /\ len(Cart(session[u])) > 0
          /\ LineExceedsStock(Cart(session[u]))
          /\ \E b \in Bodies : OrderCreate_order(u, b))
         => /\ orders' = orders
            /\ orderItems' = orderItems
            /\ session' = session
            /\ response'.op = "order" /\ response'.user = u
            /\ response'.status \in {400, 409}]_vars

\* C3: when createOrder answers 201, the stored Order's total_price is the
\* total of the cart the request loaded, and the sum of its OrderItems' totals.
C3_OrderTotalIsCartTotal ==
    [][\A u \in Users :
         (\E ok \in BOOLEAN : OrderCreate_clear(u, ok))
         => /\ orders'[req[u].order].total_price = get_total_price(req[u].cart)
            /\ orders'[req[u].order].total_price = ItemsTotal(ItemsOf(req[u].order))]_vars

\* C4: after a createOrder that failed while storing its OrderItems, no Order
\* and no OrderItem of that call is stored and the cart still has its lines.
C4_FailedOrderLeavesNothing ==
    (response.op = "order" /\ response.status = 500)
    => /\ response.order \notin OrderIds
       /\ ItemsOf(response.order) = {}
       /\ DOMAIN session[response.user] # {}

\* C5: once a verified checkout-completed event for a Payment's session has
\* been handled, that Payment is successful and its Order is paid (the first
\* delivery makes the transition; later deliveries find it made).
C5_WebhookMarksPaid ==
    \A pay \in payments :
        pay.stripe_checkout_id \in webhookLog
        => pay.status = "completed" /\ orders[pay.order].is_paid

\* C6: an Order is paid, and a Payment successful, only if a verified
\* checkout-completed event for that Payment's session was handled before.
C6_PaidOnlyByWebhook ==
    /\ \A o \in OrderIds :
          orders[o].is_paid
          => \E pay \in payments : pay.order = o /\ pay.stripe_checkout_id \in webhookLog
    /\ \A pay \in payments :
          pay.status = "completed" => pay.stripe_checkout_id \in webhookLog

\* C7: every stored Order created by createOrder has status pending and is
\* not paid, whatever body was sent.
C7_NewOrderPendingUnpaid ==
    \A o \in OrderIds : orders[o].status = "pending" /\ ~orders[o].is_paid

\* C8: the step of createOrder that answers 201 leaves the buyer's session
\* cart without lines, and every other step of createOrder, the ones that
\* answer an error included, leaves the session cart as it was.
C8_CartEmptiedOnlyBySuccess ==
    [][\A u \in Users :
         OrderCreateStep(u)
         => IF pc'[u] = "idle" /\ response'.status = 201
            THEN DOMAIN session'[u] = {}
            ELSE session'[u] = session[u]]_vars

C8_Witness ==
    /\ response.op = "order" /\ response.status = 201
    /\ response.user = "u1" /\ session["u1"] = EmptyCart
    /\ ItemsOf(response.order) # {}

\* C9: createOrder on a session cart without lines answers 400 "cart empty",
\* stores no Order and no OrderItem and calls no notification dispatch.
C9_EmptyCartRejected ==
    [][\A u \in Users, b \in Bodies :
         (DOMAIN session[u] = {} /\ OrderCreate_order(u, b))
         => /\ response' = Resp(u, "order", 400, 0, "Cart is empty. Cannot place an order.")
            /\ pc'[u] = "idle"
            /\ orders' = orders
            /\ orderItems' = orderItems
            /\ dispatchLog' = dispatchLog]_vars

C9_Witness ==
    /\ response = Resp("u1", "order", 400, 0, "Cart is empty. Cannot place an order.")
    /\ session["u1"] = EmptyCart
    /\ orders = <<>> /\ dispatchLog = <<>>

\* The line quantity an add request asks for: the requested quantity with
\* override, the stored quantity plus the requested one without.
ResultingQuantity(u, p, q, ov) ==
    IF ov THEN q
    ELSE (IF p \in DOMAIN session[u] THEN session[u][p].quantity ELSE 0) + q

\* C10: an add request for an existing product whose resulting line quantity
\* exceeds the product's stock is answered 400 and leaves the cart as it was.
C10_AddOverStockRejected ==
    [][\A u \in Users, p \in Products, q \in 0..(MaxStock + 1), ov \in BOOLEAN :
         (/\ products[p].exists
          /\ ResultingQuantity(u, p, q, ov) > products[p].stock_quantity
          /\ CartAddProductView_post(u, p, q, ov))
         => /\ response'.op = "add" /\ response'.user = u /\ response'.status = 400
            /\ session' = session]_vars

\* An add refused by the view's own stock test (the requested quantity alone
\* passed the serializer) with a line already in the cart.
C10_Witness ==
    /\ response = Resp("u1", "add", 400, 0, "Cannot add more than available stock.")
    /\ \E p \in DOMAIN session["u1"] : session["u1"][p].quantity >= 1

\* A checkout.session.completed event is being handled for a session whose
\* Payment row is stored.
PendingPaymentOf(sid) == \E pay \in payments : pay.stripe_checkout_id = sid /\ pay.status = "pending"

\* C11: a webhook request whose signature is not verified is answered 400 and
\* changes no Order and no Payment row, and a webhook request is answered 400
\* only when its signature is not verified.
C11_UnverifiedWebhookRejected ==
    [][\A v \in BOOLEAN, t \in EventTypes, sid \in Sessions :
         stripe_webhook(v, t, sid)
         => /\ ~v => /\ response'.status = 400
                     /\ orders' = orders
                     /\ payments' = payments
            /\ (response'.op = "webhook" /\ response'.status = 400) => ~v]_vars

\* An unverified request was answered 400 while a pending Payment row, which a
\* completed event would have changed, is stored and still pending.
C11_Witness ==
    /\ response = Resp("stripe", "webhook", 400, 0, "Invalid payload or signature.")
    /\ \E sid \in Sessions : PendingPaymentOf(sid)

C13_PaymentAndOrderAgree ==
    \A pay \in payments : (pay.status = "completed") <=> orders[pay.order].is_paid

\* C14: create_checkout_session for the requester's own order that is paid is
\* answered 400 and stores no Payment row.
C14_PaidOrderCheckoutRejected ==
    [][\A u \in Users, o \in 1..MaxOrders, sid \in Sessions, ok \in BOOLEAN :
         (/\ o \in OrderIds
          /\ orders[o].user = u
          /\ orders[o].is_paid
          /\ create_checkout_session(u, o, sid, ok))
         => /\ response' = Resp(u, "checkout", 400, o, "This order has already been paid.")
            /\ payments' = payments]_vars

\* C15: for the requester's own pending, unpaid order without Payment row,
\* a create_checkout_session during which the provider fails answers an error
\* and changes no Order and stores no Payment row, and one during which the
\* provider answers (the retry) is answered 201 with the new session.
C15_CheckoutRetrySucceeds ==
    [][\A u \in Users, o \in 1..MaxOrders, sid \in Sessions, ok \in BOOLEAN :
         (/\ o \in OrderIds
          /\ orders[o].user = u
          /\ orders[o].status = "pending" /\ ~orders[o].is_paid
          /\ ~\E pay \in payments : pay.order = o \/ pay.stripe_checkout_id = sid
          /\ create_checkout_session(u, o, sid, ok))
         => IF ok
            THEN /\ response' = Resp(u, "checkout", 201, o, sid)
                 /\ \E pay \in payments' : pay.order = o /\ pay.stripe_checkout_id = sid
            ELSE /\ response'.status = 500
                 /\ orders' = orders
                 /\ payments' = payments]_vars

\* C16: the step of createOrder that stores the OrderItems stores exactly one
\* row per line of the cart the request loaded, with the line's product, its
\* quantity and the price stored in the cart line.
C16_OneOrderItemPerLine ==
    [][\A u \in Users :
         (OrderCreate_items(u) /\ pc'[u] = "clear")
         => LET cart == req[u].cart
                rows == {it \in orderItems' : it.order = req[u].order}
            IN  /\ Cardinality(rows) = Cardinality(DOMAIN cart)
                /\ \A p \in DOMAIN cart :
                      [order |-> req[u].order, product |-> p,
                       price |-> cart[p].price, quantity |-> cart[p].quantity] \in rows]_vars

\* An order was created with two items, one of them at a price that is no
\* longer the catalog's.
C16_Witness ==
    /\ response.op = "order" /\ response.status = 201
    /\ Cardinality(ItemsOf(response.order)) = 2
    /\ \E it \in ItemsOf(response.order) : it.price # products[it.product].price

\* C17: when the dispatch call raises, the last step of createOrder still
\* answers 201 with the order id, leaves the Order and OrderItem rows as they
\* are and leaves the session cart cleared.
C17_DispatchFailureIgnored ==
    [][\A u \in Users :
         OrderCreate_clear(u, FALSE)
         => /\ response' = Resp(u, "order", 201, req[u].order, "Order created successfully")
            /\ orders' = orders
            /\ orderItems' = orderItems
            /\ DOMAIN session'[u] = {}]_vars

C17_Witness ==
    /\ response.op = "order" /\ response.status = 201
    /\ dispatchLog # <<>>
    /\ dispatchLog[Len(dispatchLog)].order = response.order
    /\ ~dispatchLog[Len(dispatchLog)].queued
    /\ response.order \in OrderIds
    /\ ItemsOf(response.order) # {}

\* The sum of the total_price values of the items Cart.__iter__ yields.
RECURSIVE SumLineTotals(_)
SumLineTotals(items) ==
    IF items = {} THEN 0
    ELSE LET it == CHOOSE x \in items : TRUE
         IN  it.total_price + SumLineTotals(items \ {it})

\* C18: for the cart of a Cart object, loaded from the session and changed by
\* add and remove, get_total_price() returns the sum of the total_price
\* values of the items the iteration yields.
C18_TotalIsSumOfLineTotals ==
    \A u \in Users :
      pc[u] = "cart"
      => /\ ~get_total_price_raises(req[u].cart)
         /\ get_total_price(req[u].cart) = SumLineTotals(iter(req[u].cart, products))

\* C19: every line a Cart object stores, after loading and after add, remove
\* and clear, has a quantity greater than 0.
C19_StoredQuantitiesPositive ==
    \A u \in Users :
      pc[u] = "cart" => \A p \in DOMAIN req[u].cart : req[u].cart[p].quantity > 0

\* C20: every line the session stores is yielded by the iteration of the Cart
\* object, a yielded line whose product row is gone has total_price 0, and the
\* cart detail request that iterates the cart answers 200.
C20_BadLinesYieldedWithZeroTotal ==
    /\ \A u \in Users :
         pc[u] = "cart"
         => /\ DOMAIN session[u] \subseteq DOMAIN req[u].cart
            /\ \A it \in iter(req[u].cart, products) :
                  it.product = "None" => it.total_price = 0
    /\ response.op = "detail" => response.status = 200

C22_LinePriceIsSnapshot ==
    [][\A u \in Users :
         /\ \A p \in DOMAIN session'[u] \ DOMAIN session[u] :
               session'[u][p].price = products[p].price
         /\ \A p \in DOMAIN session'[u] \cap DOMAIN session[u] :
               session'[u][p].price = session[u][p].price
         /\ (\E p \in Products, c \in 1..MaxPrice : ProductViewSet_partial_update_price(p, c))
            => get_total_price(Cart(session'[u])) = get_total_price(Cart(session[u]))]_vars

\* A line was added to again (quantity 2) while its stored price differs from
\* the catalog's current price.
C22_Witness ==
    /\ response.op = "add" /\ response.status = 200
    /\ \E p \in DOMAIN session["u1"] :
          /\ session["u1"][p].quantity >= 2
          /\ session["u1"][p].price # products[p].price
          /\ get_total_price(Cart(session["u1"])) # 0

\* C23: an add request for a product of the catalog is answered 400 and leaves
\* the session's cart unchanged whenever the requested quantity is <= 0 or the
\* product is not available, whatever its stock is.
C23_AddRejectsBadQuantityOrUnavailable ==
    [][\A u \in Users, p \in Products, q \in -1..(MaxStock + 1), ov \in BOOLEAN :
         (/\ CartAddProductView_post(u, p, q, ov)
          /\ products[p].exists
          /\ (q <= 0 \/ ~products[p].is_available))
         => /\ response'.op = "add"
            /\ response'.status = 400
            /\ session' = session]_vars

\* An add of a quantity within stock was refused because the product is not
\* available, and the cart still holds what it held.
C23_Witness ==
    /\ response = Resp("u1", "add", 400, 0, "quantity: not available")
    /\ \E p \in Products :
          /\ products[p].exists
          /\ ~products[p].is_available
          /\ products[p].stock_quantity = MaxStock
    /\ DOMAIN session["u1"] # {}

\* C25: an add request answered 200 changes only the line of its product: with
\* override the quantity becomes the requested quantity, otherwise the
\* previous quantity (0 for a new line) plus the requested quantity; every
\* other line is unchanged, and the cart the next request loads from the
\* session is the changed cart.
C25_AddChangesOnlyItsLine ==
    [][\A u \in Users, p \in Products, q \in -1..(MaxStock + 1), ov \in BOOLEAN :
         (CartAddProductView_post(u, p, q, ov) /\ response'.status = 200)
         => LET before == Cart(session[u])
                after == Cart(session'[u])
                previous == IF p \in DOMAIN before THEN before[p].quantity ELSE 0
            IN  /\ DOMAIN after = DOMAIN before \cup {p}
                /\ after[p].quantity = IF ov THEN q ELSE previous + q
                /\ \A r \in DOMAIN before \ {p} : after[r] = before[r]]_vars

\* An add was accepted in a cart of two lines, one of them of quantity 2.
C25_Witness ==
    /\ response = Resp("u1", "add", 200, 0, "Product added to cart successfully.")
    /\ Cardinality(DOMAIN session["u1"]) = 2
    /\ \E p \in DOMAIN session["u1"] : session["u1"][p].quantity = 2
    /\ \E p \in DOMAIN session["u1"] : session["u1"][p].quantity = 1

\* C29: while the catalog does not change, add and remove requests keep every
\* cart line within 1 <= quantity <= stock_quantity of its product: a step that
\* leaves the catalog as it is and starts from carts within these limits (the
\* empty cart is) ends in carts within these limits.
C29_LinesWithinStock ==
    [][(/\ products' = products
        /\ \A u \in Users : \A p \in DOMAIN session[u] :
              /\ 1 <= session[u][p].quantity
              /\ session[u][p].quantity <= products[p].stock_quantity)
       => \A u \in Users : \A p \in DOMAIN session'[u] :
              /\ 1 <= session'[u][p].quantity
              /\ session'[u][p].quantity <= products'[p].stock_quantity]_vars

\* A cart whose two lines hold the whole stock of their products, reached by
\* add requests only: nothing in the catalog was changed.
C29_Witness ==
    /\ response.op = "add"
    /\ DOMAIN session["u1"] = Products
    /\ \A p \in Products :
          /\ products[p] = [exists |-> TRUE, price |-> p, stock_quantity |-> MaxStock,
                            is_available |-> TRUE]
          /\ session["u1"][p].quantity = MaxStock

\* C24: a verified webhook event of another type than checkout.session.completed,
\* or of that type with a session id that no Payment row carries, changes no
\* Order row and no Payment row and is answered 200.
C24_UnmatchedWebhookIsNoOp ==
    [][\A t \in EventTypes, sid \in Sessions :
         (/\ stripe_webhook(TRUE, t, sid)
          /\ \/ t # "checkout.session.completed"
             \/ ~\E pay \in payments : pay.stripe_checkout_id = sid)
         => /\ orders' = orders
            /\ payments' = payments
            /\ response' = Resp("stripe", "webhook", 200, 0, "none")]_vars

\* A completed-checkout event was handled for a session id that no Payment row
\* carries, while a pending Payment row of another session exists.
C24_Witness ==
    /\ response = Resp("stripe", "webhook", 200, 0, "none")
    /\ \E sid \in webhookLog : ~\E pay \in payments : pay.stripe_checkout_id = sid
    /\ \E pay \in payments : pay.status = "pending"

\* C26: the confirmation e-mail is enqueued only by the last step of a
\* createOrder that answers 201, once per request, for the order that request
\* stored, after the cart was cleared; a createOrder that answers an error
\* enqueues nothing; no order is enqueued twice and every enqueued order is a
\* stored Order.
C26_OneEnqueuePerCreatedOrder ==
    [][/\ dispatchLog' # dispatchLog
          => \E u \in Users :
                /\ pc[u] = "clear"
                /\ pc'[u] = "idle"
                /\ Len(dispatchLog') = Len(dispatchLog) + 1
                /\ \A i \in 1..Len(dispatchLog) : dispatchLog'[i] = dispatchLog[i]
                /\ dispatchLog'[Len(dispatchLog')].order = req[u].order
                /\ req[u].order \in OrderIds
                /\ DOMAIN session'[u] = {}
                /\ response' = Resp(u, "order", 201, req[u].order, "Order created successfully")
       /\ \A u \in Users :
             (OrderCreateStep(u) /\ pc'[u] = "idle")
             => IF response'.status = 201
                THEN Len(dispatchLog') = Len(dispatchLog) + 1
                ELSE dispatchLog' = dispatchLog
       /\ \A i, j \in 1..Len(dispatchLog') :
             dispatchLog'[i].order = dispatchLog'[j].order => i = j
       /\ \A i \in 1..Len(dispatchLog') : dispatchLog'[i].order \in 1..Len(orders')]_vars

\* Two orders were created and enqueued, one each, and a later createOrder on
\* the emptied cart was refused.
C26_Witness ==
    /\ Len(dispatchLog) = 2
    /\ dispatchLog[1].order # dispatchLog[2].order
    /\ response.op = "order"
    /\ response.status = 400

\* C27: only the seller's update of a product changes a stock_quantity: every
\* other step (cart, order, checkout session, webhook) leaves the stock of
\* every product as it was, and so does every step of createOrder.
C27_StockChangedOnlyBySeller ==
    [][/\ \/ \A p \in Products : products'[p].stock_quantity = products[p].stock_quantity
          \/ \E p \in Products, s \in 0..MaxStock : ProductViewSet_partial_update(p, s)
       /\ \A u \in Users : OrderCreateStep(u) => products' = products]_vars

\* An order for the whole stock of a product was created and its checkout
\* event handled, and the product's stock is still the whole stock.
C27_Witness ==
    /\ webhookLog # {}
    /\ \E pay \in payments : pay.status = "completed"
    /\ \E it \in orderItems :
          /\ it.quantity = MaxStock
          /\ products[it.product].stock_quantity = MaxStock

\* C28: after every operation of a Cart object (construction, add, remove,
\* clear) the lines the object holds are the lines the session stores, and
\* after clear() the object has length 0 and total price 0.
C28_InstanceEqualsSession ==
    [][\A u \in Users :
         pc'[u] = "cart"
         => /\ req'[u].cart = session'[u]
            /\ Cart_clear(u) => /\ len(req'[u].cart) = 0
                                /\ ~get_total_price_raises(req'[u].cart)
                                /\ get_total_price(req'[u].cart) = 0]_vars

\* C30: a checkout-session request that names an order of another user is
\* answered 404 and stores no Payment row (the handler returns before it calls
\* the provider), and the user of every Payment row is the user of its order.
C30_CheckoutOnlyOwnOrders ==
    [][/\ \A u \in Users, o \in OrderIds, sid \in Sessions, ok \in BOOLEAN :
            (create_checkout_session(u, o, sid, ok) /\ orders[o].user # u)
            => /\ response' = Resp(u, "checkout", 404, o, "Not found.")
               /\ payments' = payments
       /\ \A pay \in payments' : pay.user = orders'[pay.order].user]_vars

\* A buyer asked for a checkout session of the other buyer's order and got 404.
C30_Witness ==
    /\ response.op = "checkout"
    /\ response.status = 404
    /\ response.order \in OrderIds
    /\ orders[response.order].user # response.user

TypeOK == /\ \A u \in Users : DOMAIN session[u] \subseteq Products
          /\ Len(orders) <= MaxOrders
====
